---- MODULE Spec2Model ----
(***************************************************************************)
(* Model of the MediChain access-control ledger:                           *)
(*   - contracts/PatientData.sol : the PatientData contract (records,      *)
(*     permissions, doctor lists, emitted events);                         *)
(*   - the mock ledger of the front end (lib/blockchain): medicalRecords,  *)
(*     transactions, and the asynchronous calls of blockchainAPI.          *)
(***************************************************************************)
EXTENDS Integers, Sequences, FiniteSets, TLC

(***************************************************************************)
(* Bounds of the model.                                                    *)
(***************************************************************************)
\* number of events the contract may emit in one behaviour
MaxEvents == 4
\* number of calls of the mock's blockchainAPI in one behaviour
MaxCalls == 3
\* the mock's clock runs for MaxRounds transaction delays
MaxRounds == 2
\* number of calls in a behaviour that fills the transaction list beyond
\* what getTransactions returns
MaxLogCalls == 11
\* number of calls in a behaviour of concurrent adds and grants
MaxRaceCalls == 4

(***************************************************************************)
(* Values.                                                                 *)
(***************************************************************************)
\* address(0)
ZeroAddress == "0x0"
\* accounts that register a record (and may also act as doctors of each other)
Patients == {"P1", "P2"}
\* accounts that send transactions
Accounts == Patients \cup {"D1"}
Address == Accounts \cup {ZeroAddress}

\* the values block.timestamp takes: an earlier and a later block
BlockTimestamps == {1, 2}

\* inputs of addMedicalRecord: empty and non-empty strings, ages around the limits
Names == {"", "Jane Doe"}
Ages == {0, 1, 149, 150}
Histories == {"", "Asthma"}
IpfsHashes == {"", "QmDoc"}
\* the inputs the transactions of the model are sent with: every combination of
\* name, age and history without a document, and one record with a document
RecordInputs ==
    (Names \X (Ages \ {149}) \X Histories \X {""})
        \cup {<<"Jane Doe", 149, "Asthma", "QmDoc">>}

\* the value of an unset mapping slot of type MedicalRecord
NoRecord ==
    [name |-> "", age |-> 0, medicalHistory |-> "", ipfsHash |-> "",
     timestamp |-> 0, exists |-> FALSE]

\* the value of an unset mapping slot of type AccessPermission
NoPermission == [doctor |-> ZeroAddress, granted |-> FALSE, timestamp |-> 0]

\* what a call that reverts hands back instead of a value
NoReturn == <<>>
\* the outcome of a call that does not revert
OK == "ok"

VARIABLES
    patientRecords,   \* mapping(address => MedicalRecord)
    doctorAccess,     \* mapping(address => mapping(address => AccessPermission))
    patientDoctors,   \* mapping(address => address[])
    events,           \* the contract's event log, oldest first
    now,              \* block.timestamp of the current block
    medicalRecords,   \* the mock's records, newest first
    transactions,     \* the mock's transactions, newest first
    calls,            \* the calls of blockchainAPI made so far, in call order
    clock             \* Date.now() of the mock, in milliseconds

contractVars == <<patientRecords, doctorAccess, patientDoctors, events, now>>
mockVars == <<medicalRecords, transactions, calls, clock>>
vars == <<patientRecords, doctorAccess, patientDoctors, events, now,
          medicalRecords, transactions, calls, clock>>

(***************************************************************************)
(* Modifiers and views of the contract.  A call's outcome is a function of *)
(* the storage and of its inputs: OK, or the reason of the revert.         *)
(***************************************************************************)
\* function recordExists (and the condition of modifier patientExists)
recordExists(patient) == patientRecords[patient].exists

\* function checkAccess
checkAccess(patient, doctor) == doctorAccess[patient][doctor].granted

\* hasAccess that trusts the stored doctor field alone
hasAccess_DoctorFieldOnly(sender, patient) ==
    \/ sender = patient
    \/ doctorAccess[patient][sender].doctor = sender

\* modifier hasAccess, for msg.sender = sender
hasAccess(sender, patient) ==
    \/ sender = patient
    \/ /\ doctorAccess[patient][sender].granted
       /\ doctorAccess[patient][sender].doctor = sender


\* getAuthorizedDoctors that also answers the doctors the patient granted
getAuthorizedDoctors_GrantedToo(sender, patient) ==
    IF sender # patient /\ ~doctorAccess[patient][sender].granted
    THEN [result |-> "Only patient can perform this action", ret |-> NoReturn]
    ELSE [result |-> OK, ret |-> patientDoctors[patient]]
\* function getAuthorizedDoctors, called by sender
getAuthorizedDoctors(sender, patient) ==
    IF sender # patient
    THEN [result |-> "Only patient can perform this action", ret |-> NoReturn]
    ELSE [result |-> OK, ret |-> patientDoctors[patient]]

\* the age check written with <= 150
addMedicalRecordRevert_Age150(name, age, medicalHistory) ==
    IF ~(Len(name) > 0) THEN "Name cannot be empty"
    ELSE IF ~(age > 0 /\ age <= 150) THEN "Invalid age"
    ELSE IF ~(Len(medicalHistory) > 0) THEN "Medical history cannot be empty"
    ELSE OK

\* the require statements of addMedicalRecord, in order
addMedicalRecordRevert(name, age, medicalHistory) ==
    IF ~(Len(name) > 0) THEN "Name cannot be empty"
    ELSE IF ~(age > 0 /\ age < 150) THEN "Invalid age"
    ELSE IF ~(Len(medicalHistory) > 0) THEN "Medical history cannot be empty"
    ELSE OK

\* grantAccess without its "Access already granted" check
grantAccessRevert_NoGrantedCheck(sender, doctor) ==
    IF ~recordExists(sender) THEN "Patient record does not exist"
    ELSE IF doctor = ZeroAddress THEN "Invalid doctor address"
    ELSE IF doctor = sender THEN "Cannot grant access to yourself"
    ELSE OK


\* grantAccess without its "Cannot grant access to yourself" check
grantAccessRevert_NoSelfCheck(sender, doctor) ==
    IF ~recordExists(sender) THEN "Patient record does not exist"
    ELSE IF doctor = ZeroAddress THEN "Invalid doctor address"
    ELSE IF doctorAccess[sender][doctor].granted THEN "Access already granted"
    ELSE OK

\* grantAccess without modifier patientExists
grantAccessRevert_NoRecordCheck(sender, doctor) ==
    IF doctor = ZeroAddress THEN "Invalid doctor address"
    ELSE IF doctor = sender THEN "Cannot grant access to yourself"
    ELSE IF doctorAccess[sender][doctor].granted THEN "Access already granted"
    ELSE OK
\* the modifiers and require statements of grantAccess, in order
grantAccessRevert(sender, doctor) ==
    IF ~recordExists(sender) THEN "Patient record does not exist"
    ELSE IF doctor = ZeroAddress THEN "Invalid doctor address"
    ELSE IF doctor = sender THEN "Cannot grant access to yourself"
    ELSE IF doctorAccess[sender][doctor].granted THEN "Access already granted"
    ELSE OK

\* revokeAccess without its "Access not granted" check
revokeAccessRevert_NoGrantedCheck(sender, doctor) ==
    IF ~recordExists(sender) THEN "Patient record does not exist"
    ELSE OK


\* revokeAccess without modifier patientExists
revokeAccessRevert_NoRecordCheck(sender, doctor) ==
    IF ~doctorAccess[sender][doctor].granted THEN "Access not granted"
    ELSE OK
\* the modifiers and require statement of revokeAccess, in order
revokeAccessRevert(sender, doctor) ==
    IF ~recordExists(sender) THEN "Patient record does not exist"
    ELSE IF ~doctorAccess[sender][doctor].granted THEN "Access not granted"
    ELSE OK


\* the modifiers of the reads with patientExists placed first
readRevert_ExistsFirst(sender, patient) ==
    IF ~recordExists(patient) THEN "Patient record does not exist"
    ELSE IF ~hasAccess(sender, patient) THEN "Access denied"
    ELSE OK
\* the modifiers of getMedicalRecord and accessMedicalRecord, in order
readRevert(sender, patient) ==
    IF ~hasAccess(sender, patient) THEN "Access denied"
    ELSE IF ~recordExists(patient) THEN "Patient record does not exist"
    ELSE OK

\* getMedicalRecord that returns the record of the caller
getMedicalRecord_OfSender(sender, patient) ==
    LET reason == readRevert(sender, patient) IN
    [result |-> reason,
     ret |-> IF reason = OK THEN patientRecords[sender] ELSE NoReturn]

\* function getMedicalRecord, a view: its outcome and the record it returns
getMedicalRecord(sender, patient) ==
    LET reason == readRevert(sender, patient) IN
    [result |-> reason,
     ret |-> IF reason = OK THEN patientRecords[patient] ELSE NoReturn]

\* function accessMedicalRecord: its outcome and the record it returns
accessMedicalRecordReturn(sender, patient) ==
    LET reason == readRevert(sender, patient) IN
    [result |-> reason,
     ret |-> IF reason = OK THEN patientRecords[patient] ELSE NoReturn]

\* index of the first occurrence of doctor in doctors from i on, 0 when absent
RECURSIVE IndexFrom(_, _, _)
IndexFrom(doctors, doctor, i) ==
    IF i > Len(doctors) THEN 0
    ELSE IF doctors[i] = doctor THEN i
    ELSE IndexFrom(doctors, doctor, i + 1)

\* a removal that finds nothing: the list is left as it is
RemoveDoctor_Keeps(doctors, doctor) == doctors

\* a removal that pops without first moving the last element
RemoveDoctor_PopsLast(doctors, doctor) ==
    IF IndexFrom(doctors, doctor, 1) = 0 THEN doctors
    ELSE SubSeq(doctors, 1, Len(doctors) - 1)

\* the removal loop of revokeAccess: the first match is overwritten by the
\* last element and the array is popped
RemoveDoctor(doctors, doctor) ==
    LET i == IndexFrom(doctors, doctor, 1) IN
    IF i = 0 THEN doctors
    ELSE SubSeq([doctors EXCEPT ![i] = doctors[Len(doctors)]], 1, Len(doctors) - 1)

(***************************************************************************)
(* Events.                                                                 *)
(***************************************************************************)
MedicalRecordAddedEvent(patient, name, age, t) ==
    [kind |-> "MedicalRecordAdded", patient |-> patient, name |-> name,
     age |-> age, timestamp |-> t]

AccessEvent(kind, patient, doctor, t) ==
    [kind |-> kind, patient |-> patient, doctor |-> doctor, timestamp |-> t]

\* the storage of the contract and the log of the chain, as one value
chain ==
    [patientRecords |-> patientRecords, doctorAccess |-> doctorAccess,
     patientDoctors |-> patientDoctors, events |-> events]

\* an emit that was left out
Emit_Nothing(log, event) == log

\* emit: the event is appended to the log of the chain
Emit(log, event) == Append(log, event)

(***************************************************************************)
(* Transactions of the contract, with msg.sender = sender, mined in the    *)
(* current block.  Each is given by the storage and log it leaves behind:  *)
(* a reverted transaction leaves both as they are.                         *)
(***************************************************************************)
\* a record stored without its exists flag
NewRecord_NotExists(name, age, medicalHistory, ipfsHash, t) ==
    [name |-> name, age |-> age, medicalHistory |-> medicalHistory,
     ipfsHash |-> ipfsHash, timestamp |-> t, exists |-> FALSE]


\* a record stored without the time of the block
NewRecord_ZeroTimestamp(name, age, medicalHistory, ipfsHash, t) ==
    [name |-> name, age |-> age, medicalHistory |-> medicalHistory,
     ipfsHash |-> ipfsHash, timestamp |-> 0, exists |-> TRUE]
\* the record addMedicalRecord stores
NewRecord(name, age, medicalHistory, ipfsHash, t) ==
    [name |-> name, age |-> age, medicalHistory |-> medicalHistory,
     ipfsHash |-> ipfsHash, timestamp |-> t, exists |-> TRUE]

\* function addMedicalRecord
addMedicalRecordPost(sender, name, age, medicalHistory, ipfsHash) ==
    IF addMedicalRecordRevert(name, age, medicalHistory) # OK
    THEN chain
    ELSE [chain EXCEPT
            !.patientRecords[sender] =
                NewRecord(name, age, medicalHistory, ipfsHash, now),
            !.events = Emit(@, MedicalRecordAddedEvent(sender, name, age, now))]


\* a permission stored without its granted flag
NewPermission_NotGranted(doctor, t) ==
    [doctor |-> doctor, granted |-> FALSE, timestamp |-> t]
\* the permission grantAccess stores
NewPermission(doctor, t) == [doctor |-> doctor, granted |-> TRUE, timestamp |-> t]


\* a grantAccess that writes the doctor list before its checks and does not
\* undo the write when a check fails
grantAccessPost_PushFirst(sender, doctor) ==
    IF grantAccessRevert(sender, doctor) # OK
    THEN [chain EXCEPT !.patientDoctors[sender] = Append(@, doctor)]
    ELSE [chain EXCEPT
            !.doctorAccess[sender][doctor] = NewPermission(doctor, now),
            !.patientDoctors[sender] = Append(@, doctor),
            !.events = Emit(@, AccessEvent("AccessGranted", sender, doctor, now))]

\* a grantAccess that writes the entry and the list under the doctor's key
grantAccessPost_Reversed(sender, doctor) ==
    IF grantAccessRevert(sender, doctor) # OK
    THEN chain
    ELSE [chain EXCEPT
            !.doctorAccess[doctor][sender] = NewPermission(sender, now),
            !.patientDoctors[doctor] = Append(@, sender),
            !.events = Emit(@, AccessEvent("AccessGranted", sender, doctor, now))]
\* function grantAccess
grantAccessPost(sender, doctor) ==
    IF grantAccessRevert(sender, doctor) # OK
    THEN chain
    ELSE [chain EXCEPT
            !.doctorAccess[sender][doctor] = NewPermission(doctor, now),
            !.patientDoctors[sender] = Append(@, doctor),
            !.events = Emit(@, AccessEvent("AccessGranted", sender, doctor, now))]


\* a revoke that deletes the entry instead of clearing its flag
RevokedPermission_Deletes(permission, t) == NoPermission

\* a revoke that also clears the doctor field of the entry
RevokedPermission_ClearsDoctor(permission, t) ==
    [permission EXCEPT !.granted = FALSE, !.doctor = ZeroAddress]
\* the permission revokeAccess leaves: only the flag is written
RevokedPermission(permission, t) == [permission EXCEPT !.granted = FALSE]

\* function revokeAccess
revokeAccessPost(sender, doctor) ==
    IF revokeAccessRevert(sender, doctor) # OK
    THEN chain
    ELSE [chain EXCEPT
            !.doctorAccess[sender][doctor] = RevokedPermission(@, now),
            !.patientDoctors[sender] = RemoveDoctor(@, doctor),
            !.events = Emit(@, AccessEvent("AccessRevoked", sender, doctor, now))]


\* function getMedicalRecord is a view: whether it returns the record or
\* reverts, it writes nothing and emits nothing
getMedicalRecordPost(sender, patient) == chain
\* function accessMedicalRecord, sent as a transaction: it returns what
\* accessMedicalRecordReturn gives and logs the access of a third party
accessMedicalRecordPost(sender, patient) ==
    IF accessMedicalRecordReturn(sender, patient).result # OK
    THEN chain
    ELSE IF sender # patient
         THEN [chain EXCEPT
                 !.events = Emit(@, AccessEvent("RecordAccessed", patient, sender, now))]
         ELSE chain

\* the transaction is mined: its storage and log become the chain's
Mined(post) ==
    /\ Len(post.events) <= MaxEvents
    /\ patientRecords' = post.patientRecords
    /\ doctorAccess' = post.doctorAccess
    /\ patientDoctors' = post.patientDoctors
    /\ events' = post.events
    /\ UNCHANGED now

addMedicalRecord(sender, name, age, medicalHistory, ipfsHash) ==
    Mined(addMedicalRecordPost(sender, name, age, medicalHistory, ipfsHash))

grantAccess(sender, doctor) == Mined(grantAccessPost(sender, doctor))

revokeAccess(sender, doctor) == Mined(revokeAccessPost(sender, doctor))

accessMedicalRecord(sender, patient) == Mined(accessMedicalRecordPost(sender, patient))

\* a new block: block.timestamp does not decrease, here it advances
NewBlock ==
    /\ now + 1 \in BlockTimestamps
    /\ now' = now + 1
    /\ UNCHANGED <<patientRecords, doctorAccess, patientDoctors, events>>

ContractInit ==
    /\ patientRecords = [a \in Address |-> NoRecord]
    /\ doctorAccess = [a \in Address |-> [d \in Address |-> NoPermission]]
    /\ patientDoctors = [a \in Address |-> <<>>]
    /\ events = <<>>
    /\ now = 1


(***************************************************************************)
(* The contract used by one patient with three doctors: the shortest use   *)
(* in which a doctor list has a first, a middle and a last element.        *)
(***************************************************************************)
ListPatient == "P1"
ListDoctors == {"D1", "D2", "D3"}
ListAddress == Address \cup ListDoctors

ContractInitDoctors ==
    /\ patientRecords = [a \in ListAddress |-> NoRecord]
    /\ doctorAccess = [a \in ListAddress |-> [d \in ListAddress |-> NoPermission]]
    /\ patientDoctors = [a \in ListAddress |-> <<>>]
    /\ events = <<>>
    /\ now = 1
(***************************************************************************)
(* The mock ledger (blockchainAPI).  An async function runs without        *)
(* interruption up to its await; the timers of simulateTransaction all     *)
(* wait TxDelay, so they fire in the order they were set.                  *)
(***************************************************************************)
\* setTimeout(resolve, 2000)
TxDelay == 2000
\* Date.now() when the page is loaded
StartClock == 2
MaxClock == StartClock + MaxRounds * TxDelay + 1

\* wallet addresses as typed, and String.prototype.toLowerCase on them
JohnDoe == "0x742d35Cc6634C0532925a3b8D2f6a8C987"
DoctorA3 == "0xA3c9B5D7E2f8c4A6E8D5B7A2F4E6C8A2D5B7E9F3C6A8"
MockPatients == {"0xaa"}
MockDoctors == {"0xdd", "0xDD"}
toLowerCase(address) ==
    CASE address = "0xAA" -> "0xaa"
      [] address = "0xDD" -> "0xdd"
      [] address = JohnDoe -> "0x742d35cc6634c0532925a3b8d2f6a8c987"
      [] address = DoctorA3 -> "0xa3c9b5d7e2f8c4a6e8d5b7a2f4e6c8a2d5b7e9f3c6a8"
      [] OTHER -> address

\* the form data addMedicalRecord is called with: the mock stores what it gets
MockInputs == {<<"Jane Doe", 40, "Asthma">>, <<"", 0, "">>}
\* `QmX${Math.random().toString(36).substring(7)}`: a random string that
\* nothing reads; one value stands for it
ReportHashes == {"QmXk3"}

\* the record the module is loaded with
InitialRecord ==
    [id |-> 1, patientAddress |-> JohnDoe, name |-> "John Doe", age |-> 35,
     medicalHistory |-> "Hypertension, Type 2 Diabetes",
     reportHash |-> "QmXoypizjW3WknFiJnKLwHCnL72vedxjQkDDP1mXWo6uco",
     timestamp |-> 0, transactionHash |-> 0, doctorAccess |-> <<DoctorA3>>]

\* generateHash: 64 random hex digits, taken to be fresh; hashes are numbered
\* in the order they are drawn
generateHash == Len(transactions) + 1

Contains(seq, x) == \E i \in 1..Len(seq) : seq[i] = x

\* Array.prototype.find on medicalRecords: index of the first record with the
\* id, 0 when there is none
RECURSIVE FindRecord(_, _, _)
FindRecord(records, recordId, i) ==
    IF i > Len(records) THEN 0
    ELSE IF records[i].id = recordId THEN i
    ELSE FindRecord(records, recordId, i + 1)

\* blockchainAPI.getPatientRecords
getPatientRecords(patientAddress) ==
    LET Keep(record) ==
            toLowerCase(record.patientAddress) = toLowerCase(patientAddress)
    IN SelectSeq(medicalRecords, Keep)

\* blockchainAPI.getDoctorAccessibleRecords
getDoctorAccessibleRecords_All(doctorAddress) == medicalRecords
getDoctorAccessibleRecords(doctorAddress) ==
    LET Keep(record) ==
            \E i \in 1..Len(record.doctorAccess) :
                toLowerCase(record.doctorAccess[i]) = toLowerCase(doctorAddress)
    IN SelectSeq(medicalRecords, Keep)


\* getTransactions without its slice
getTransactions_All == transactions
\* blockchainAPI.getTransactions
getTransactions == SubSeq(transactions, 1, IF Len(transactions) < 10
                                           THEN Len(transactions) ELSE 10)

\* what a call returns; a field that the result does not have is 0
MockResult(success, transactionHash, recordId) ==
    [success |-> success, transactionHash |-> transactionHash, recordId |-> recordId]
NoResult == MockResult(FALSE, 0, 0)

\* simulateTransaction up to its await: the transaction is put in front of
\* the log as pending, always with type ADD_RECORD
NewTransaction(hash) ==
    [hash |-> hash, type |-> "ADD_RECORD", timestamp |-> clock, status |-> "pending"]


\* a simulateTransaction that returns without confirming its transaction
Confirm_Nothing(hash) == transactions
\* simulateTransaction after its await: the transaction object is confirmed
Confirm(hash) ==
    [i \in 1..Len(transactions) |->
        IF transactions[i].hash = hash
        THEN [transactions[i] EXCEPT !.status = "confirmed"]
        ELSE transactions[i]]

\* a call is recorded with what it was called with, the hash of its
\* transaction, the time its timer is due, and its result once it returned
MockCall(op, args, hash, pc, result) ==
    [op |-> op, args |-> args, hash |-> hash, due |-> clock + TxDelay,
     pc |-> pc, result |-> result]

\* the timer of call c fires: it is due, and no timer set before it is left
TimerFires(c) ==
    /\ c \in 1..Len(calls)
    /\ calls[c].pc = "await"
    /\ clock >= calls[c].due
    /\ \A b \in 1..(c - 1) : calls[b].pc # "await"

\* addMedicalRecord up to the await of simulateTransaction
addMedicalRecordBegin(patientAddress, name, age, medicalHistory) ==
    /\ transactions' = <<NewTransaction(generateHash)>> \o transactions
    /\ calls' = Append(calls, MockCall("addMedicalRecord",
                     <<patientAddress, name, age, medicalHistory>>,
                     generateHash, "await", NoResult))
    /\ UNCHANGED <<medicalRecords, clock>>

\* a call of addMedicalRecord, while the model takes calls
addMedicalRecordCall(patientAddress, name, age, medicalHistory) ==
    /\ Len(calls) < MaxCalls
    /\ addMedicalRecordBegin(patientAddress, name, age, medicalHistory)


\* what the patient types into the form of the dashboard: name, age and
\* medical history, each a string
FormData ==
    {[name |-> "Jane Doe", age |-> "0", medicalHistory |-> "Asthma"],
     [name |-> "Jane Doe", age |-> "", medicalHistory |-> "Asthma"]}

\* parseInt on the strings of digits the form is filled with
parseInt(text) ==
    CASE text = "0" -> 0
      [] text = "40" -> 40
      [] text = "200" -> 200

\* handleAddRecord of the patient dashboard: a form with an empty field is
\* refused with a message, any other is passed on to addMedicalRecord
handleAddRecord(walletAddress, formData) ==
    IF formData.name = "" \/ formData.age = "" \/ formData.medicalHistory = ""
    THEN UNCHANGED <<medicalRecords, transactions, calls, clock>>
    ELSE addMedicalRecordCall(walletAddress, formData.name, parseInt(formData.age),
                              formData.medicalHistory)
\* addMedicalRecord from the await on: the record is put in front of the list
addMedicalRecordResume(c, reportHash) ==
    /\ TimerFires(c)
    /\ calls[c].op = "addMedicalRecord"
    /\ LET data == calls[c].args
           record == [id |-> clock, patientAddress |-> data[1], name |-> data[2],
                      age |-> data[3], medicalHistory |-> data[4],
                      reportHash |-> reportHash, timestamp |-> clock,
                      transactionHash |-> calls[c].hash, doctorAccess |-> <<>>]
       IN /\ transactions' = Confirm(calls[c].hash)
          /\ medicalRecords' = <<record>> \o medicalRecords
          /\ calls' = [calls EXCEPT ![c].pc = "returned",
                 ![c].result = MockResult(TRUE, calls[c].hash, record.id)]
    /\ UNCHANGED clock

\* grantDoctorAccess up to the await of simulateTransaction, or to its return
\* when the record is not found or the address is already in its list
grantDoctorAccessBegin(recordId, doctorAddress) ==
    LET r == FindRecord(medicalRecords, recordId, 1) IN
    /\ IF r # 0 /\ ~Contains(medicalRecords[r].doctorAccess, doctorAddress)
       THEN /\ medicalRecords' = [medicalRecords EXCEPT
                   ![r].doctorAccess = Append(@, doctorAddress)]
            /\ transactions' = <<NewTransaction(generateHash)>> \o transactions
            /\ calls' = Append(calls, MockCall("grantDoctorAccess",
                            <<recordId, doctorAddress>>, generateHash, "await", NoResult))
       ELSE /\ calls' = Append(calls, MockCall("grantDoctorAccess",
                            <<recordId, doctorAddress>>, 0, "returned", NoResult))
            /\ UNCHANGED <<medicalRecords, transactions>>
    /\ UNCHANGED clock

\* a call of grantDoctorAccess, while the model takes calls
grantDoctorAccessCall(recordId, doctorAddress) ==
    /\ Len(calls) < MaxCalls
    /\ grantDoctorAccessBegin(recordId, doctorAddress)

\* grantDoctorAccess from the await on
grantDoctorAccessResume(c) ==
    /\ TimerFires(c)
    /\ calls[c].op = "grantDoctorAccess"
    /\ transactions' = Confirm(calls[c].hash)
    /\ calls' = [calls EXCEPT ![c].pc = "returned",
           ![c].result = MockResult(TRUE, calls[c].hash, 0)]
    /\ UNCHANGED <<medicalRecords, clock>>

\* time passes: a millisecond (once between two delays), or the delay of
\* a transaction
TimePasses(d) ==
    /\ clock + d <= MaxClock
    /\ d = 1 => (clock - StartClock) % TxDelay = 0
    /\ clock' = clock + d
    /\ UNCHANGED <<medicalRecords, transactions, calls>>

MockInit ==
    /\ medicalRecords = <<InitialRecord>>
    /\ transactions = <<>>
    /\ calls = <<>>
    /\ clock = StartClock

\* the record ids a caller may pass: those of the records, and an unknown one
RecordIds == {medicalRecords[i].id : i \in 1..Len(medicalRecords)} \cup {0}

Init == ContractInit /\ MockInit

\* the contract alone
Next ==
    \/ \E sender \in Patients, input \in RecordInputs :
          /\ addMedicalRecord(sender, input[1], input[2], input[3], input[4])
          /\ UNCHANGED mockVars
    \/ \E sender \in Accounts, doctor \in Address :
          grantAccess(sender, doctor) /\ UNCHANGED mockVars
    \/ \E sender \in Accounts, doctor \in Address :
          revokeAccess(sender, doctor) /\ UNCHANGED mockVars
    \/ \E sender \in Accounts, patient \in Address :
          accessMedicalRecord(sender, patient) /\ UNCHANGED mockVars
    \/ NewBlock /\ UNCHANGED mockVars

Spec == Init /\ [][Next]_vars

\* the mock alone
NextMock ==
    \/ \E patientAddress \in MockPatients, input \in MockInputs :
          /\ addMedicalRecordCall(patientAddress, input[1], input[2], input[3])
          /\ UNCHANGED contractVars
    \/ \E walletAddress \in MockPatients, formData \in FormData :
          handleAddRecord(walletAddress, formData) /\ UNCHANGED contractVars
    \/ \E c \in 1..Len(calls), reportHash \in ReportHashes :
          addMedicalRecordResume(c, reportHash) /\ UNCHANGED contractVars
    \/ \E recordId \in RecordIds, doctorAddress \in MockDoctors :
          grantDoctorAccessCall(recordId, doctorAddress) /\ UNCHANGED contractVars
    \/ \E c \in 1..Len(calls) :
          grantDoctorAccessResume(c) /\ UNCHANGED contractVars
    \/ \E d \in {1, TxDelay} : TimePasses(d) /\ UNCHANGED contractVars

SpecMock == Init /\ [][NextMock]_vars




\* the mock under a run of addMedicalRecord calls, long enough for the
\* transaction list to outgrow the ten entries getTransactions returns
NextLog ==
    \/ \E patientAddress \in MockPatients :
          /\ Len(calls) < MaxLogCalls
          /\ addMedicalRecordBegin(patientAddress, "Jane Doe", 40, "Asthma")
          /\ UNCHANGED contractVars
    \/ \E c \in 1..Len(calls), reportHash \in ReportHashes :
          addMedicalRecordResume(c, reportHash) /\ UNCHANGED contractVars
    \/ TimePasses(TxDelay) /\ UNCHANGED contractVars

SpecLog == Init /\ [][NextLog]_vars

\* the mock with the scheduling of the JavaScript event loop: time passes,
\* and a timer that is due fires.  Calls are taken while the clock of the
\* model has room for their delay.
TimersFire ==
    \/ \E c \in 1..Len(calls), reportHash \in ReportHashes :
          addMedicalRecordResume(c, reportHash) /\ UNCHANGED contractVars
    \/ \E c \in 1..Len(calls) :
          grantDoctorAccessResume(c) /\ UNCHANGED contractVars

DelayPasses == TimePasses(TxDelay) /\ UNCHANGED contractVars

NextLive ==
    \/ \E patientAddress \in MockPatients :
          /\ clock + TxDelay <= MaxClock
          /\ addMedicalRecordCall(patientAddress, "Jane Doe", 40, "Asthma")
          /\ UNCHANGED contractVars
    \/ \E recordId \in RecordIds, doctorAddress \in MockDoctors :
          /\ clock + TxDelay <= MaxClock
          /\ grantDoctorAccessCall(recordId, doctorAddress)
          /\ UNCHANGED contractVars
    \/ TimersFire
    \/ DelayPasses

SpecLive == Init /\ [][NextLive]_vars /\ WF_vars(TimersFire) /\ WF_vars(DelayPasses)

\* the mock under concurrent calls of one patient who adds records and
\* grants one doctor
NextRace ==
    \/ \E patientAddress \in MockPatients :
          /\ Len(calls) < MaxRaceCalls
          /\ addMedicalRecordBegin(patientAddress, "Jane Doe", 40, "Asthma")
          /\ UNCHANGED contractVars
    \/ \E recordId \in RecordIds :
          /\ Len(calls) < MaxRaceCalls
          /\ grantDoctorAccessBegin(recordId, "0xdd")
          /\ UNCHANGED contractVars
    \/ TimersFire
    \/ DelayPasses

SpecRace == Init /\ [][NextRace]_vars
\* the contract with one patient and three doctors
InitDoctors == ContractInitDoctors /\ MockInit

NextDoctors ==
    \/ /\ addMedicalRecord(ListPatient, "Jane Doe", 1, "Asthma", "")
       /\ UNCHANGED mockVars
    \/ \E doctor \in ListDoctors :
          grantAccess(ListPatient, doctor) /\ UNCHANGED mockVars
    \/ \E doctor \in ListDoctors :
          revokeAccess(ListPatient, doctor) /\ UNCHANGED mockVars
    \/ NewBlock /\ UNCHANGED mockVars

SpecDoctors == InitDoctors /\ [][NextDoctors]_vars
(***************************************************************************)
(* The backend (server.js): the route that reads a record for an HTTP      *)
(* client.  The client is not identified; the route calls the contract     *)
(* with the sender the request names.                                      *)
(***************************************************************************)
\* req.query.doctorAddress of a request without the parameter
Undefined == "undefined"
\* a path parameter that is not an address
NotAnAddress == "not-an-address"
\* web3.utils.isAddress
isAddress(address) == address \in Address

\* the body of a response that carries no record
NoData == <<>>

\* GET /api/medical-record/:patientAddress?doctorAddress=...
getMedicalRecordRoute(patientAddress, doctorAddress) ==
    IF ~isAddress(patientAddress) THEN [status |-> 400, data |-> NoData]
    ELSE LET from == IF doctorAddress \in {Undefined, ""}
                     THEN patientAddress ELSE doctorAddress
             call == getMedicalRecord(from, patientAddress)
         IN IF call.result # OK THEN [status |-> 500, data |-> NoData]
            ELSE IF ~call.ret.exists THEN [status |-> 404, data |-> NoData]
            ELSE [status |-> 200,
                  data |-> [name |-> call.ret.name, age |-> call.ret.age,
                            medicalHistory |-> call.ret.medicalHistory,
                            ipfsHash |-> call.ret.ipfsHash,
                            timestamp |-> call.ret.timestamp]]

\* the values a request may carry as doctorAddress
QueryAddresses == Address \cup {Undefined, ""}

\* the private keys a request may carry, and web3's privateKeyToAccount
PrivateKeys == {"key of P1", "key of P2", "key of D1"}
privateKeyToAccount(privateKey) ==
    CASE privateKey = "key of P1" -> "P1"
      [] privateKey = "key of P2" -> "P2"
      [] privateKey = "key of D1" -> "D1"

\* POST /api/grant-access with body {patientAddress, doctorAddress,
\* privateKey}: the status of the response and the chain it leaves
grantAccessRoute(patientAddress, doctorAddress, privateKey) ==
    IF ~isAddress(patientAddress) \/ ~isAddress(doctorAddress)
    THEN [status |-> 400, post |-> chain]
    ELSE LET account == privateKeyToAccount(privateKey) IN
         IF grantAccessRevert(account, doctorAddress) # OK
         THEN [status |-> 500, post |-> chain]
         ELSE [status |-> 200, post |-> grantAccessPost(account, doctorAddress)]
(***************************************************************************)
(* Properties.  The event log tells which transaction succeeded last: a    *)
(* reverted transaction, a view and a new block leave the storage and the  *)
(* log as they are.                                                        *)
(***************************************************************************)
Count(seq, x) == Cardinality({i \in 1..Len(seq) : seq[i] = x})

LastEvent == events[Len(events)]

\* the log holds an event of the kind for the pair before position n
Logged(kind, patient, doctor, n) ==
    \E i \in 1..(n - 1) :
        /\ events[i].kind = kind
        /\ events[i].patient = patient
        /\ events[i].kind # "MedicalRecordAdded"
        /\ events[i].doctor = doctor

\* position of the last AccessGranted or AccessRevoked event of the pair, 0
\* when the pair has none
RECURSIVE LastTransition(_, _, _)
LastTransition(patient, doctor, i) ==
    IF i = 0 THEN 0
    ELSE IF /\ events[i].kind \in {"AccessGranted", "AccessRevoked"}
            /\ events[i].patient = patient
            /\ events[i].doctor = doctor
         THEN i
         ELSE LastTransition(patient, doctor, i - 1)

\* C1: right after a successful grantAccess(P, D), whatever came before,
\* checkAccess(P, D) is true and D occurs exactly once in the list that
\* getAuthorizedDoctors(P) returns to P.
C1_GrantGivesAccess ==
    (Len(events) > 0 /\ LastEvent.kind = "AccessGranted") =>
        LET P == LastEvent.patient
            D == LastEvent.doctor
        IN /\ recordExists(P)
           /\ checkAccess(P, D)
           /\ getAuthorizedDoctors(P, P).result = OK
           /\ Count(getAuthorizedDoctors(P, P).ret, D) = 1

\* C1 witness: a doctor is granted again after a grant and a revoke
C1_Witness ==
    /\ Len(events) > 0
    /\ LastEvent.kind = "AccessGranted"
    /\ Logged("AccessRevoked", LastEvent.patient, LastEvent.doctor, Len(events))

C3_ReadFollowsCheckAccess ==
    \A P \in Address : \A D \in Address \ {P} :
        IF checkAccess(P, D)
        THEN /\ getMedicalRecord(D, P) = [result |-> OK, ret |-> patientRecords[P]]
             /\ accessMedicalRecordReturn(D, P) =
                    [result |-> OK, ret |-> patientRecords[P]]
             /\ patientRecords[P].exists
        ELSE /\ getMedicalRecord(D, P) =
                    [result |-> "Access denied", ret |-> NoReturn]
             /\ accessMedicalRecordReturn(D, P) =
                    [result |-> "Access denied", ret |-> NoReturn]

\* C3 witness: a patient with a granted doctor, who is returned the record,
\* and a doctor whose access was revoked, who is denied
C3_Witness ==
    \E P \in Address : \E D \in Address \ {P}, E \in Address \ {P} :
        /\ checkAccess(P, D)
        /\ getMedicalRecord(D, P).result = OK
        /\ getMedicalRecord(D, P).ret.exists
        /\ ~checkAccess(P, E)
        /\ E \in Accounts
        /\ doctorAccess[P][E].doctor = E

\* C4: after a successful revokeAccess(P, D) every read of P's record by D
\* fails with "Access denied" until a later grantAccess(P, D) succeeds: as
\* long as the last transition of the pair in the log is the revoke, reads
\* by D are denied, whatever D was granted or has read before.
C4_RevokedStaysDenied ==
    \A P \in Address : \A D \in Address \ {P} :
        LET last == LastTransition(P, D, Len(events)) IN
        (last # 0 /\ events[last].kind = "AccessRevoked") =>
            /\ getMedicalRecord(D, P).result = "Access denied"
            /\ accessMedicalRecordReturn(D, P).result = "Access denied"

\* C4 witness: D read the record while granted, was revoked, and a later
\* block has been mined
C4_Witness ==
    \E P \in Address : \E D \in Address \ {P} :
        LET last == LastTransition(P, D, Len(events)) IN
        /\ last # 0
        /\ events[last].kind = "AccessRevoked"
        /\ Logged("RecordAccessed", P, D, last)
        /\ now > events[last].timestamp

\* the storage a transaction leaves
StorageOf(post) == <<post.patientRecords, post.doctorAccess, post.patientDoctors>>

\* what every transaction an account can send leaves behind
Posts ==
    {addMedicalRecordPost(sender, input[1], input[2], input[3], input[4]) :
        sender \in Patients, input \in RecordInputs}
    \cup {grantAccessPost(sender, doctor) : sender \in Accounts, doctor \in Address}
    \cup {revokeAccessPost(sender, doctor) : sender \in Accounts, doctor \in Address}
    \cup {accessMedicalRecordPost(sender, patient) :
            sender \in Accounts, patient \in Address}

\* C5: grantAccess(P, D) called while (P, D) is granted fails with "Access
\* already granted", and the failed call leaves the permission entries with
\* their timestamps, the doctor lists, the records and the event log as
\* they were.
C5_SecondGrantRejected ==
    \A P \in Accounts, D \in Address :
        checkAccess(P, D) =>
            /\ grantAccessRevert(P, D) = "Access already granted"
            /\ grantAccessPost(P, D) = chain

\* C5 witness: the pair was granted by the latest successful transaction,
\* so that a grant now is the second in a row; the patient has two doctors
C5_Witness ==
    /\ Len(events) > 0
    /\ LastEvent.kind = "AccessGranted"
    /\ checkAccess(LastEvent.patient, LastEvent.doctor)
    /\ grantAccessRevert(LastEvent.patient, LastEvent.doctor) = "Access already granted"
    /\ Len(patientDoctors[LastEvent.patient]) = 2

\* C6 as stated: revokeAccess(P, D) fails with "Access not granted" whenever
\* (P, D) was never granted or is revoked.
C6_Original ==
    \A P \in Accounts, D \in Address :
        ~checkAccess(P, D) => revokeAccessRevert(P, D) = "Access not granted"

\* C6 amended: revokeAccess(P, D) by a P that owns a record fails with
\* "Access not granted" whenever (P, D) was never granted or is revoked; by
\* a P without a record it fails with "Patient record does not exist".  In
\* both cases the failed call changes no permission entry, no doctor list,
\* no record, and appends no event.
C6_RevokeWithoutGrantRejected ==
    \A P \in Accounts, D \in Address :
        ~checkAccess(P, D) =>
            /\ revokeAccessRevert(P, D) =
                    IF recordExists(P) THEN "Access not granted"
                    ELSE "Patient record does not exist"
            /\ revokeAccessPost(P, D) = chain

\* C6 witness: a patient with a record, a revoked doctor and a doctor that
\* was never granted, beside an account without a record
C6_Witness ==
    \E P \in Accounts : \E D \in Accounts, E \in Accounts, Q \in Accounts :
        /\ recordExists(P)
        /\ ~checkAccess(P, D) /\ doctorAccess[P][D].doctor = D
        /\ ~checkAccess(P, E) /\ doctorAccess[P][E] = NoPermission /\ E # P
        /\ ~recordExists(Q)
        /\ revokeAccessRevert(Q, D) = "Patient record does not exist"
        /\ revokeAccessRevert(P, D) = "Access not granted"
        /\ revokeAccessRevert(P, E) = "Access not granted"

\* C7: every successful addMedicalRecord, grantAccess and revokeAccess
\* appends exactly one event, placed after every event logged before (the
\* position in the log is the sequence number); no transaction that changes
\* the storage goes without its event, and none logs more than one.
C7_OneEventPerMutation ==
    /\ \A sender \in Patients, input \in RecordInputs :
          addMedicalRecordRevert(input[1], input[2], input[3]) = OK =>
            addMedicalRecordPost(sender, input[1], input[2], input[3], input[4]).events
                = Append(events, MedicalRecordAddedEvent(sender, input[1], input[2], now))
    /\ \A sender \in Accounts, doctor \in Address :
          grantAccessRevert(sender, doctor) = OK =>
            grantAccessPost(sender, doctor).events
                = Append(events, AccessEvent("AccessGranted", sender, doctor, now))
    /\ \A sender \in Accounts, doctor \in Address :
          revokeAccessRevert(sender, doctor) = OK =>
            revokeAccessPost(sender, doctor).events
                = Append(events, AccessEvent("AccessRevoked", sender, doctor, now))
    /\ \A post \in Posts :
          /\ StorageOf(post) # StorageOf(chain) => Len(post.events) = Len(events) + 1
          /\ Len(post.events) \in {Len(events), Len(events) + 1}
          /\ SubSeq(post.events, 1, Len(events)) = events

\* C7 witness: a record was added, access granted and revoked, each with
\* its event, in this order
C7_Witness ==
    /\ Len(events) >= 3
    /\ \E i \in 1..Len(events), j \in 1..Len(events), k \in 1..Len(events) :
           /\ i < j /\ j < k
           /\ events[i].kind = "MedicalRecordAdded"
           /\ events[j].kind = "AccessGranted"
           /\ events[k].kind = "AccessRevoked"

\* C7 in the mock: a call that logged a transaction logged exactly one, a
\* call that failed logged none, the log holds nothing else, and a newer
\* transaction stands before the older ones.
MockOneTransactionPerCall ==
    /\ \A c \in 1..Len(calls) :
          LET logged == {i \in 1..Len(transactions) :
                            transactions[i].hash = calls[c].hash}
          IN /\ calls[c].result.success => calls[c].hash # 0
             /\ IF calls[c].hash # 0
                THEN Cardinality(logged) = 1
                ELSE calls[c].pc = "returned" /\ ~calls[c].result.success
    /\ Len(transactions) = Cardinality({c \in 1..Len(calls) : calls[c].hash # 0})
    /\ \A i \in 1..Len(transactions), j \in 1..Len(transactions) :
          i < j => transactions[i].hash > transactions[j].hash

\* the log holds a MedicalRecordAdded event of the patient
RecordAddedLogged(patient) ==
    \E i \in 1..Len(events) :
        events[i].kind = "MedicalRecordAdded" /\ events[i].patient = patient

\* C8: recordExists(P) is false in every state before the first successful
\* addMedicalRecord of P and true in every state after it: no transaction,
\* successful or failed, of P or of anyone else, makes it false again.
C8_RecordExistsAfterAdd ==
    /\ \A P \in Address : recordExists(P) <=> RecordAddedLogged(P)
    /\ \A post \in Posts :
          \A P \in Address : recordExists(P) => post.patientRecords[P].exists

\* C8 witness: after its record was added the patient granted and revoked
\* access, and another patient added a record
C8_Witness ==
    \E P \in Patients, Q \in Patients :
        /\ P # Q
        /\ recordExists(P) /\ recordExists(Q)
        /\ \E i \in 1..Len(events) :
               events[i].kind = "AccessRevoked" /\ events[i].patient = P
        /\ LastEvent.kind = "MedicalRecordAdded" /\ LastEvent.patient = Q

\* the inputs the specification calls invalid
InvalidInput(name, age, medicalHistory) ==
    name = "" \/ medicalHistory = "" \/ age < 1 \/ age > 149

\* C9: addMedicalRecord with an empty name, an empty history or an age
\* outside 1..149 fails with a validation error, stores nothing, leaves the
\* caller's record as it is and appends no event; with the three inputs
\* valid it succeeds for any ipfsHash, the empty one included, and stores
\* the record.
C9_AddValidatesInput ==
    \A sender \in Patients, name \in Names, age \in Ages,
       medicalHistory \in Histories, ipfsHash \in IpfsHashes :
        LET post == addMedicalRecordPost(sender, name, age, medicalHistory, ipfsHash) IN
        IF InvalidInput(name, age, medicalHistory)
        THEN /\ addMedicalRecordRevert(name, age, medicalHistory) \in
                    {"Name cannot be empty", "Invalid age",
                     "Medical history cannot be empty"}
             /\ post = chain
        ELSE /\ addMedicalRecordRevert(name, age, medicalHistory) = OK
             /\ post.patientRecords[sender] =
                    [name |-> name, age |-> age, medicalHistory |-> medicalHistory,
                     ipfsHash |-> ipfsHash, timestamp |-> now, exists |-> TRUE]
             /\ Len(post.events) = Len(events) + 1

\* C9 witness: a patient holds a record, so that a rejected update has one
\* to leave alone; the lowest age without a document and the highest age
\* with a document are stored
C9_Witness ==
    \E P \in Patients, Q \in Patients :
        /\ patientRecords[P].exists /\ patientRecords[P].age = 1
        /\ patientRecords[P].ipfsHash = ""
        /\ patientRecords[Q].exists /\ patientRecords[Q].age = 149
        /\ patientRecords[Q].ipfsHash = "QmDoc"

\* C10: at most one live record per owner in every reachable state, in the
\* contract's patientRecords (a mapping: one slot per owner) and in the
\* mock's medicalRecords as getPatientRecords returns them.
C10_OneRecordPerOwner ==
    /\ DOMAIN patientRecords = Address
    /\ \A patientAddress \in MockPatients \cup {JohnDoe} :
           Len(getPatientRecords(patientAddress)) <= 1

\* C11 as stated: grantAccess(P, P) fails with "Cannot grant access to
\* yourself" in every state.
C11_Original ==
    \A P \in Accounts : grantAccessRevert(P, P) = "Cannot grant access to yourself"

\* C11 amended: grantAccess(P, P) fails in every state, with "Cannot grant
\* access to yourself" when P owns a record and with "Patient record does
\* not exist" when P owns none, and changes nothing; so no reachable state
\* has a granted entry (P, P) and no patient stands in their own doctor list.
C11_NoSelfGrant ==
    /\ \A P \in Accounts :
          /\ grantAccessRevert(P, P) =
                IF recordExists(P) THEN "Cannot grant access to yourself"
                ELSE "Patient record does not exist"
          /\ grantAccessPost(P, P) = chain
    /\ \A P \in Address :
          /\ ~checkAccess(P, P)
          /\ doctorAccess[P][P] = NoPermission
          /\ Count(patientDoctors[P], P) = 0

\* C11 witness: a patient with a record and a granted doctor, whose grant to
\* themselves is rejected as a self-grant, beside an account without a record
C11_Witness ==
    \E P \in Accounts, Q \in Accounts :
        /\ recordExists(P)
        /\ Len(patientDoctors[P]) > 0
        /\ grantAccessRevert(P, P) = "Cannot grant access to yourself"
        /\ ~recordExists(Q)
        /\ grantAccessRevert(Q, Q) = "Patient record does not exist"

MockGrantUnknownRecordFails ==
    [][\A recordId \in RecordIds, doctorAddress \in MockDoctors :
          (/\ grantDoctorAccessCall(recordId, doctorAddress)
           /\ FindRecord(medicalRecords, recordId, 1) = 0)
          => /\ calls'[Len(calls')].pc = "returned"
             /\ ~calls'[Len(calls')].result.success
             /\ medicalRecords' = medicalRecords
             /\ transactions' = transactions]_vars

\* C13: every transaction either commits as a whole or fails as a whole.  A
\* call that fails, for whatever reason (validation, no record, invalid
\* doctor, already granted, not granted, access denied), leaves the records,
\* the permission entries, the doctor lists and the event log identical to
\* what they were; a call that succeeds leaves its write together with its
\* one event.
C13_AllOrNothing ==
    /\ \A sender \in Patients, input \in RecordInputs :
          LET post == addMedicalRecordPost(sender, input[1], input[2], input[3], input[4])
          IN IF addMedicalRecordRevert(input[1], input[2], input[3]) # OK
             THEN post = chain
             ELSE /\ post.patientRecords[sender].exists
                  /\ post.patientRecords[sender].name = input[1]
                  /\ Len(post.events) = Len(events) + 1
                  /\ post.events[Len(post.events)].kind = "MedicalRecordAdded"
    /\ \A sender \in Accounts, doctor \in Address :
          LET post == grantAccessPost(sender, doctor)
          IN IF grantAccessRevert(sender, doctor) # OK
             THEN post = chain
             ELSE /\ post.doctorAccess[sender][doctor].granted
                  /\ Count(post.patientDoctors[sender], doctor) = 1
                  /\ Len(post.events) = Len(events) + 1
                  /\ post.events[Len(post.events)].kind = "AccessGranted"
    /\ \A sender \in Accounts, doctor \in Address :
          LET post == revokeAccessPost(sender, doctor)
          IN IF revokeAccessRevert(sender, doctor) # OK
             THEN post = chain
             ELSE /\ ~post.doctorAccess[sender][doctor].granted
                  /\ Count(post.patientDoctors[sender], doctor) = 0
                  /\ Len(post.events) = Len(events) + 1
                  /\ post.events[Len(post.events)].kind = "AccessRevoked"
    /\ \A sender \in Accounts, patient \in Address :
          LET post == accessMedicalRecordPost(sender, patient)
          IN IF accessMedicalRecordReturn(sender, patient).result # OK
             THEN post = chain
             ELSE StorageOf(post) = StorageOf(chain)

\* C13 witness: a state in which a call of each kind fails: a patient with a
\* record, a granted doctor and a revoked doctor, one of them without a record
C13_Witness ==
    \E P \in Patients, D \in Accounts, E \in Accounts, Q \in Accounts :
        /\ grantAccessRevert(P, D) = "Access already granted"
        /\ grantAccessRevert(P, P) = "Cannot grant access to yourself"
        /\ grantAccessRevert(P, ZeroAddress) = "Invalid doctor address"
        /\ revokeAccessRevert(P, E) = "Access not granted"
        /\ doctorAccess[P][E].doctor = E
        /\ accessMedicalRecordReturn(E, P).result = "Access denied"
        /\ revokeAccessRevert(Q, P) = "Patient record does not exist"
        /\ Len(patientDoctors[P]) = 1

\* C13 in the mock: a call of blockchainAPI that returns a failure has
\* changed neither the records nor the transactions, and a call that logged
\* a transaction returns a success.
MockFailedCallChangesNothing ==
    [][/\ (/\ Len(calls') = Len(calls) + 1
           /\ ~calls'[Len(calls')].result.success
           /\ calls'[Len(calls')].pc = "returned")
          => (medicalRecords' = medicalRecords /\ transactions' = transactions)
       /\ \A c \in 1..Len(calls) :
            (calls[c].pc = "await" /\ calls'[c].pc = "returned")
                => calls'[c].result.success]_vars

\* C14: a requester who is neither patient P nor a doctor currently granted
\* by P never receives P's record from GET /api/medical-record/:patientAddress,
\* for any value of the doctorAddress query parameter, including when it is
\* omitted.
C14_RouteServesOnlyAuthorized ==
    \A requester \in Accounts, P \in Address, doctorAddress \in QueryAddresses :
        (requester # P /\ ~checkAccess(P, requester)) =>
            getMedicalRecordRoute(P, doctorAddress).status # 200

\* C15: every successful read of P's record by a caller other than P appends
\* exactly one RecordAccessed event naming P and the caller, through
\* accessMedicalRecord, through getMedicalRecord and through the backend
\* route that calls getMedicalRecord; a successful read by P appends none.
C15_ReadsAreLogged ==
    \A P \in Address, caller \in Accounts :
        LET logged == Append(events, AccessEvent("RecordAccessed", P, caller, now)) IN
        /\ (caller # P /\ accessMedicalRecordReturn(caller, P).result = OK) =>
              accessMedicalRecordPost(caller, P).events = logged
        /\ (caller # P /\ getMedicalRecord(caller, P).result = OK) =>
              getMedicalRecordPost(caller, P).events = logged
        /\ (caller # P /\ getMedicalRecordRoute(P, caller).status = 200) =>
              getMedicalRecordPost(caller, P).events = logged
        /\ (caller = P /\ readRevert(P, P) = OK) =>
              /\ accessMedicalRecordPost(P, P).events = events
              /\ getMedicalRecordPost(P, P).events = events

\* the state of the pair (patient, doctor) in a ledger: no entry was ever
\* written, the entry is granted, or the entry was written and is not granted
PermissionState(ledger, patient, doctor) ==
    IF ledger.doctorAccess[patient][doctor].granted THEN "Granted"
    ELSE IF ledger.doctorAccess[patient][doctor] = NoPermission THEN "NoRelation"
    ELSE "Revoked"

\* C16: the permission of a pair (P, D) follows NoRelation -grant-> Granted
\* -revoke-> Revoked -grant-> Granted.  Only grantAccess(P, D) and
\* revokeAccess(P, D) sent by P change the state of the pair, and only along
\* these three transitions; grant from Granted and revoke from NoRelation or
\* Revoked are rejected and change nothing; from Granted the revoke and from
\* Revoked the grant succeed (the patient owns a record in both); checkAccess
\* is total and is true exactly in Granted, the state the log gives the pair.
C16_PermissionStateMachine ==
    /\ \A sender \in Accounts, doctor \in Address :
        LET granted == grantAccessPost(sender, doctor)
            revoked == revokeAccessPost(sender, doctor)
            accessed == accessMedicalRecordPost(sender, doctor)
        IN \A P \in Address, D \in Address :
              LET s == PermissionState(chain, P, D)
                  g == PermissionState(granted, P, D)
                  r == PermissionState(revoked, P, D)
              IN /\ g # s => /\ sender = P /\ doctor = D
                             /\ s \in {"NoRelation", "Revoked"} /\ g = "Granted"
                 /\ r # s => /\ sender = P /\ doctor = D
                             /\ s = "Granted" /\ r = "Revoked"
                 /\ PermissionState(accessed, P, D) = s
    /\ \A sender \in Patients, input \in RecordInputs :
          addMedicalRecordPost(sender, input[1], input[2], input[3], input[4]).doctorAccess
              = doctorAccess
    /\ \A P \in Address, D \in Address :
        LET s == PermissionState(chain, P, D)
            last == LastTransition(P, D, Len(events))
        IN /\ checkAccess(P, D) \in BOOLEAN
           /\ checkAccess(P, D) <=> s = "Granted"
           /\ s = "NoRelation" <=> last = 0
           /\ s = "Granted" <=> (last # 0 /\ events[last].kind = "AccessGranted")
           /\ s = "Revoked" <=> (last # 0 /\ events[last].kind = "AccessRevoked")
    /\ \A P \in Accounts, D \in Address :
        LET s == PermissionState(chain, P, D) IN
           /\ s = "Granted" =>
                /\ grantAccessRevert(P, D) = "Access already granted"
                /\ grantAccessPost(P, D) = chain
                /\ revokeAccessRevert(P, D) = OK
                /\ PermissionState(revokeAccessPost(P, D), P, D) = "Revoked"
           /\ s = "Revoked" =>
                /\ revokeAccessRevert(P, D) = "Access not granted"
                /\ revokeAccessPost(P, D) = chain
                /\ recordExists(P)
                /\ grantAccessRevert(P, D) = OK
                /\ PermissionState(grantAccessPost(P, D), P, D) = "Granted"
           /\ s = "NoRelation" =>
                /\ revokeAccessRevert(P, D) # OK
                /\ revokeAccessPost(P, D) = chain
                /\ (recordExists(P) /\ D \notin {P, ZeroAddress}) =>
                      /\ grantAccessRevert(P, D) = OK
                      /\ PermissionState(grantAccessPost(P, D), P, D) = "Granted"

\* C16 witness: a pair that went NoRelation, Granted, Revoked and is Granted
\* again, beside a pair of the same patient that is still NoRelation
C16_Witness ==
    \E P \in Patients, D \in Accounts, E \in Accounts :
        /\ PermissionState(chain, P, D) = "Granted"
        /\ Logged("AccessRevoked", P, D, Len(events) + 1)
        /\ E \notin {P, D}
        /\ PermissionState(chain, P, E) = "NoRelation"

\* C17: in every reachable state the doctor list of every patient P holds
\* exactly the doctors D with granted(P, D) = true, each exactly once: never
\* a revoked doctor, a doctor that was never granted, or a duplicate.
C17_ListIsGrantedSet ==
    \A P \in Address :
        /\ \A D \in Address :
              Count(patientDoctors[P], D) = IF checkAccess(P, D) THEN 1 ELSE 0
        /\ Len(patientDoctors[P]) = Cardinality({D \in Address : checkAccess(P, D)})
        /\ \A i \in 1..Len(patientDoctors[P]) :
              doctorAccess[P][patientDoctors[P][i]].doctor = patientDoctors[P][i]

\* C17 witness: a patient granted two doctors and revoked the first, so the
\* list holds the one that is still granted
C17_Witness ==
    \E P \in Patients, D \in Accounts, E \in Accounts :
        /\ D # E
        /\ patientDoctors[P] = <<E>>
        /\ PermissionState(chain, P, D) = "Revoked"
        /\ LastTransition(P, E, Len(events)) > 0
        /\ \E i \in 1..Len(events) :
              /\ i < LastTransition(P, E, Len(events))
              /\ events[i].kind = "AccessGranted"
              /\ events[i].patient = P
              /\ events[i].doctor = D

\* C18: getAuthorizedDoctors(P) returns the granted doctors in the order of
\* their most recent successful grant, and revoking a doctor removes only
\* that doctor and keeps the relative order of the remaining ones, whatever
\* the position of the revoked doctor in the list.
C18_RevokeKeepsOrder ==
    LET P == ListPatient
        doctors == getAuthorizedDoctors(P, P).ret
    IN /\ \A i \in 1..Len(doctors), j \in 1..Len(doctors) :
             i < j => LastTransition(P, doctors[i], Len(events))
                        < LastTransition(P, doctors[j], Len(events))
       /\ \A D \in ListDoctors :
             LET Others(doctor) == doctor # D IN
             revokeAccessRevert(P, D) = OK =>
                revokeAccessPost(P, D).patientDoctors[P] = SelectSeq(doctors, Others)

\* C19: getAuthorizedDoctors(P) succeeds only when the caller is P, and then
\* returns P's doctor list; for every other caller, a doctor currently
\* granted by P included, it fails with "Only patient can perform this
\* action" and returns no part of the list.
C19_OnlyPatientListsDoctors ==
    \A caller \in Accounts, P \in Address :
        IF caller = P
        THEN getAuthorizedDoctors(caller, P) = [result |-> OK, ret |-> patientDoctors[P]]
        ELSE getAuthorizedDoctors(caller, P) =
                [result |-> "Only patient can perform this action", ret |-> NoReturn]

\* C19 witness: a patient with two granted doctors; one of them asks for the
\* list and is refused
C19_Witness ==
    \E P \in Patients, D \in Accounts :
        /\ D # P
        /\ checkAccess(P, D)
        /\ Len(patientDoctors[P]) = 2
        /\ getAuthorizedDoctors(D, P).result = "Only patient can perform this action"
        /\ getAuthorizedDoctors(P, P).ret = patientDoctors[P]

\* C20: at every point where another caller can run getPatientRecords,
\* getDoctorAccessibleRecords or getTransactions, the 2-second await of
\* simulateTransaction included, each logged transaction has its record or
\* its grant already stored, and each record or grant stored by a call has
\* its transaction logged.
C20_LogMatchesState ==
    /\ \A c \in 1..Len(calls) :
          LET call == calls[c]
              logged == \E i \in 1..Len(getTransactions) :
                            getTransactions[i].hash = call.hash
              records == IF call.op = "addMedicalRecord"
                         THEN getPatientRecords(call.args[1])
                         ELSE getDoctorAccessibleRecords(call.args[2])
              stored == \E i \in 1..Len(records) :
                            IF call.op = "addMedicalRecord"
                            THEN records[i].transactionHash = call.hash
                            ELSE records[i].id = call.args[1]
          IN call.hash # 0 => (logged <=> stored)
    /\ \A i \in 1..Len(medicalRecords) :
          medicalRecords[i].transactionHash # 0 =>
              \E j \in 1..Len(transactions) :
                  transactions[j].hash = medicalRecords[i].transactionHash

\* the type the transaction of an operation of the mock should carry
TransactionType(op) ==
    IF op = "addMedicalRecord" THEN "ADD_RECORD" ELSE "GRANT_ACCESS"

\* C21: the log entry of a successful operation carries the kind of that
\* operation.  In the contract the last event after a successful add, grant,
\* revoke or third-party read is MedicalRecordAdded, AccessGranted,
\* AccessRevoked or RecordAccessed; in the mock the transaction of an
\* addMedicalRecord call is of type ADD_RECORD and the transaction of a
\* grantDoctorAccess call is of type GRANT_ACCESS.
C21_LogCarriesOperationKind ==
    /\ \A sender \in Accounts, doctor \in Address :
          /\ grantAccessRevert(sender, doctor) = OK =>
                grantAccessPost(sender, doctor).events[Len(events) + 1].kind
                    = "AccessGranted"
          /\ revokeAccessRevert(sender, doctor) = OK =>
                revokeAccessPost(sender, doctor).events[Len(events) + 1].kind
                    = "AccessRevoked"
          /\ (sender # doctor /\ readRevert(sender, doctor) = OK) =>
                accessMedicalRecordPost(sender, doctor).events[Len(events) + 1].kind
                    = "RecordAccessed"
    /\ \A sender \in Patients, input \in RecordInputs :
          addMedicalRecordRevert(input[1], input[2], input[3]) = OK =>
            addMedicalRecordPost(sender, input[1], input[2], input[3],
                                 input[4]).events[Len(events) + 1].kind
                = "MedicalRecordAdded"
    /\ \A c \in 1..Len(calls) : \A i \in 1..Len(transactions) :
          transactions[i].hash = calls[c].hash =>
              transactions[i].type = TransactionType(calls[c].op)

\* C22: the logs are append-only.  Every step leaves the contract's event
\* log as the first part of the new event log, and the mock's transaction
\* list (newest first) as the last part of the new transaction list: no
\* entry is removed, moved relative to the others, or changed in any field.
C22_LogsAreAppendOnly ==
    [][/\ Len(events') >= Len(events)
       /\ SubSeq(events', 1, Len(events)) = events
       /\ Len(transactions') >= Len(transactions)
       /\ SubSeq(transactions', Len(transactions') - Len(transactions) + 1,
                 Len(transactions')) = transactions]_vars

\* the number of transactions created so far
Created == Cardinality({c \in 1..Len(calls) : calls[c].hash # 0})

ValidRecord(record) ==
    /\ record.name # ""
    /\ record.medicalHistory # ""
    /\ record.age >= 1 /\ record.age <= 149

\* C24: in every reachable state every stored medical record has a non-empty
\* name, a non-empty medical history and an age between 1 and 149, whether
\* it was stored by the contract's addMedicalRecord or by the mock's
\* addMedicalRecord, called from the patient form or directly.
C24_StoredRecordsAreValid ==
    /\ \A P \in Address : recordExists(P) => ValidRecord(patientRecords[P])
    /\ \A i \in 1..Len(medicalRecords) : ValidRecord(medicalRecords[i])

\* C25: the timestamp of a permission entry is the time of the most recent
\* transition of the pair in either direction: a successful revokeAccess
\* sets it to the current time, as a successful grantAccess does.
C25_TimestampOfLastTransition ==
    /\ \A P \in Address, D \in Address :
          LET last == LastTransition(P, D, Len(events)) IN
          last # 0 => doctorAccess[P][D].timestamp = events[last].timestamp
    /\ \A P \in Accounts, D \in Address :
          /\ grantAccessRevert(P, D) = OK =>
                grantAccessPost(P, D).doctorAccess[P][D].timestamp = now
          /\ revokeAccessRevert(P, D) = OK =>
                revokeAccessPost(P, D).doctorAccess[P][D].timestamp = now

\* C26: a read of P's record by a caller D # P without a grant, while P has
\* no record, fails with "Access denied", not with "Patient record does not
\* exist": the access check comes first.  "Patient record does not exist"
\* is the answer only to a caller who passes the access check, which is P
\* reading their own absent record.
C26_AccessDeniedComesFirst ==
    \A caller \in Accounts, P \in Address :
        LET viewed == getMedicalRecord(caller, P).result
            accessed == accessMedicalRecordReturn(caller, P).result
        IN /\ (caller # P /\ ~checkAccess(P, caller) /\ ~recordExists(P)) =>
                 (viewed = "Access denied" /\ accessed = "Access denied")
           /\ (caller = P /\ ~recordExists(P)) =>
                 /\ viewed = "Patient record does not exist"
                 /\ accessed = "Patient record does not exist"
           /\ "Patient record does not exist" \in {viewed, accessed} =>
                 (caller = P /\ ~recordExists(P))
           /\ accessMedicalRecordPost(caller, P).events # events =>
                 (caller # P /\ checkAccess(P, caller) /\ recordExists(P))

\* C26 witness: a doctor granted by one patient reads the absent record of
\* another account and is denied, and that account is told its record does
\* not exist
C26_Witness ==
    \E D \in Accounts, Q \in Patients, P \in Accounts :
        /\ checkAccess(Q, D)
        /\ P \notin {D, Q}
        /\ ~recordExists(P)
        /\ getMedicalRecord(D, P).result = "Access denied"
        /\ accessMedicalRecordReturn(D, P).result = "Access denied"
        /\ getMedicalRecord(P, P).result = "Patient record does not exist"

\* what a ledger holds for one patient: the record, the permission entries
\* and the doctor list
LedgerOf(ledger, patient) ==
    <<ledger.patientRecords[patient], ledger.doctorAccess[patient],
      ledger.patientDoctors[patient]>>

\* C27: a call made by P, of any kind and with any arguments, successful or
\* failed, leaves the record, every permission entry and the doctor list of
\* every other patient Q # P as they are.
C27_OtherPatientsUntouched ==
    /\ \A P \in Patients, input \in RecordInputs :
          LET post == addMedicalRecordPost(P, input[1], input[2], input[3], input[4])
          IN \A Q \in Address \ {P} : LedgerOf(post, Q) = LedgerOf(chain, Q)
    /\ \A P \in Accounts, other \in Address :
          LET granted == grantAccessPost(P, other)
              revoked == revokeAccessPost(P, other)
              accessed == accessMedicalRecordPost(P, other)
          IN /\ \A Q \in Address \ {P} :
                   /\ LedgerOf(granted, Q) = LedgerOf(chain, Q)
                   /\ LedgerOf(revoked, Q) = LedgerOf(chain, Q)
             /\ StorageOf(accessed) = StorageOf(chain)

\* C27 witness: two patients with a record each, each with a granted
\* doctor, one of them the doctor of the other
C27_Witness ==
    \E P \in Patients, Q \in Patients :
        /\ P # Q
        /\ recordExists(P) /\ recordExists(Q)
        /\ checkAccess(P, Q)
        /\ Len(patientDoctors[Q]) = 1
        /\ grantAccessRevert(Q, P) = OK
        /\ revokeAccessRevert(Q, P) = "Access not granted"

\* position of the last MedicalRecordAdded event of the patient up to i, 0
\* when there is none
RECURSIVE LastAdded(_, _)
LastAdded(patient, i) ==
    IF i = 0 THEN 0
    ELSE IF events[i].kind = "MedicalRecordAdded" /\ events[i].patient = patient
         THEN i
         ELSE LastAdded(patient, i - 1)

\* C28: the timestamp of a patient's record never decreases over the
\* patient's successful addMedicalRecord calls: each of them sets it to the
\* time of the current block, which is not before the stored one, and no
\* other transaction changes it.
C28_RecordTimestampMonotonic ==
    /\ \A P \in Address :
          LET last == LastAdded(P, Len(events)) IN
          /\ patientRecords[P].timestamp <= now
          /\ recordExists(P) =>
                /\ last # 0
                /\ patientRecords[P].timestamp = events[last].timestamp
                /\ \A i \in 1..last :
                      (events[i].kind = "MedicalRecordAdded" /\ events[i].patient = P)
                          => events[i].timestamp <= patientRecords[P].timestamp
    /\ \A P \in Patients, input \in RecordInputs :
          addMedicalRecordRevert(input[1], input[2], input[3]) = OK =>
            LET post == addMedicalRecordPost(P, input[1], input[2], input[3], input[4])
            IN /\ post.patientRecords[P].timestamp = now
               /\ post.patientRecords[P].timestamp >= patientRecords[P].timestamp
    /\ \A sender \in Accounts, other \in Address :
          /\ grantAccessPost(sender, other).patientRecords = patientRecords
          /\ revokeAccessPost(sender, other).patientRecords = patientRecords
          /\ accessMedicalRecordPost(sender, other).patientRecords = patientRecords

\* C28 witness: a patient added a record in one block and updated it in a
\* later one; the record carries the later time
C28_Witness ==
    \E P \in Patients :
        LET last == LastAdded(P, Len(events)) IN
        /\ last > 1
        /\ LastAdded(P, last - 1) # 0
        /\ events[LastAdded(P, last - 1)].timestamp < events[last].timestamp
        /\ patientRecords[P].timestamp = events[last].timestamp
        /\ Len(patientDoctors[P]) > 0

\* the status of the transaction with the hash, "none" before it is created
StatusOf(hash) ==
    IF \E i \in 1..Len(transactions) : transactions[i].hash = hash
    THEN transactions[CHOOSE i \in 1..Len(transactions) :
                          transactions[i].hash = hash].status
    ELSE "none"

\* C29: no operation of the mock blocks for ever.  Every transaction enters
\* the log as pending and is eventually confirmed; once confirmed it stays
\* confirmed (it is never pending again and never failed); and every call of
\* addMedicalRecord and grantDoctorAccess eventually returns a result.
C29_TransactionsConfirmCallsReturn ==
    /\ \A hash \in 1..MaxCalls :
          (StatusOf(hash) = "pending") ~> (StatusOf(hash) = "confirmed")
    /\ \A c \in 1..MaxCalls :
          (Len(calls) >= c) ~> (Len(calls) >= c /\ calls[c].pc = "returned")
    /\ [][\A hash \in 1..MaxCalls :
            /\ (StatusOf(hash) = "none" /\ StatusOf(hash)' # "none")
                  => StatusOf(hash)' = "pending"
            /\ StatusOf(hash) = "pending"
                  => StatusOf(hash)' \in {"pending", "confirmed"}
            /\ StatusOf(hash) = "confirmed"
                  => StatusOf(hash)' = "confirmed"]_vars

\* C29 witness: a call has returned its result with its transaction
\* confirmed while a later call is still waiting with its transaction pending
C29_Witness ==
    \E b \in 1..Len(calls), c \in 1..Len(calls) :
        /\ b < c
        /\ calls[b].pc = "returned" /\ calls[b].result.success
        /\ StatusOf(calls[b].hash) = "confirmed"
        /\ calls[c].pc = "await"
        /\ StatusOf(calls[c].hash) = "pending"

\* C30: GET /api/medical-record/:patientAddress answers 400 when the path
\* parameter is not an address, and 404 when it is an address whose patient
\* has no record: a missing record is not reported with the 500 of other
\* failures.
C30_MissingRecordIsNotFound ==
    \A doctorAddress \in QueryAddresses :
        /\ getMedicalRecordRoute(NotAnAddress, doctorAddress).status = 400
        /\ \A P \in Address :
              ~recordExists(P) => getMedicalRecordRoute(P, doctorAddress).status = 404

\* C31: a successful POST /api/grant-access records the grant under the
\* patient named by patientAddress in the request, whatever private key the
\* request carries, and changes the ledger of no one else.
C31_GrantRouteActsForPatientAddress ==
    \A patientAddress \in Address, doctorAddress \in Address,
       privateKey \in PrivateKeys :
        LET response == grantAccessRoute(patientAddress, doctorAddress, privateKey) IN
        response.status = 200 =>
            /\ response.post.doctorAccess[patientAddress][doctorAddress].granted
            /\ \A Q \in Address \ {patientAddress} :
                   /\ response.post.doctorAccess[Q] = doctorAccess[Q]
                   /\ response.post.patientDoctors[Q] = patientDoctors[Q]

\* C32: in every reachable state granted(P, D) implies that P owns a record;
\* so a read by a granted doctor returns the record and never fails with
\* "Patient record does not exist", and the revoke of a granted doctor
\* passes the ownership check.  No transaction removes a record.
C32_GrantedImpliesRecord ==
    /\ \A P \in Address, D \in Address :
          checkAccess(P, D) =>
              /\ recordExists(P)
              /\ getMedicalRecord(D, P).result = OK
              /\ getMedicalRecord(D, P).ret.exists
              /\ accessMedicalRecordReturn(D, P).result = OK
              /\ revokeAccessRevert(P, D) = OK
    /\ \A P \in Address :
          (\E D \in Address : doctorAccess[P][D] # NoPermission) => recordExists(P)
    /\ \A sender \in Accounts, doctor \in Address :
          grantAccessRevert(sender, doctor) = OK => recordExists(sender)

\* C32 witness: a granted doctor has read the record of a patient who then
\* updated it
C32_Witness ==
    \E P \in Patients, D \in Accounts :
        /\ checkAccess(P, D)
        /\ Logged("RecordAccessed", P, D, Len(events))
        /\ LastEvent.kind = "MedicalRecordAdded"
        /\ LastEvent.patient = P
        /\ getMedicalRecord(D, P).ret.timestamp = LastEvent.timestamp

\* C33: in every reachable state every permission entry (P, D) that was ever
\* written stores doctor = D, with D neither the zero address nor P, also
\* after a revoke; an entry never written is the default one.  Hence the
\* comparison of the stored doctor with the caller in hasAccess decides
\* nothing: for a caller other than P, hasAccess is checkAccess(P, caller).
C33_EntryStoresItsDoctor ==
    /\ \A P \in Address, D \in Address :
          LET entry == doctorAccess[P][D] IN
          IF LastTransition(P, D, Len(events)) # 0
          THEN /\ entry.doctor = D
               /\ D \notin {ZeroAddress, P}
               /\ entry.timestamp > 0
          ELSE entry = NoPermission
    /\ \A caller \in Accounts, P \in Address :
          caller # P => (hasAccess(caller, P) <=> checkAccess(P, caller))

\* C33 witness: a patient with a revoked entry and a granted entry, each
\* storing its doctor
C33_Witness ==
    \E P \in Patients, D \in Accounts, E \in Accounts :
        /\ doctorAccess[P][D] # NoPermission
        /\ ~doctorAccess[P][D].granted
        /\ doctorAccess[P][D].doctor = D
        /\ doctorAccess[P][E].granted
        /\ doctorAccess[P][E].doctor = E
        /\ ~hasAccess(D, P)
        /\ hasAccess(E, P)

\* C34: an update of a record leaves the permissions alone.  In the
\* contract a successful addMedicalRecord of a patient changes no permission
\* entry and no doctor list, and stores the record the granted doctors then
\* read; in the mock a doctor who can read a record of a patient can read
\* what the patient stored last.
C34_UpdateKeepsPermissions ==
    /\ \A P \in Patients, input \in RecordInputs :
          LET post == addMedicalRecordPost(P, input[1], input[2], input[3], input[4])
          IN addMedicalRecordRevert(input[1], input[2], input[3]) = OK =>
                /\ post.doctorAccess = doctorAccess
                /\ post.patientDoctors = patientDoctors
                /\ \A D \in Address :
                      checkAccess(P, D) =>
                          /\ post.doctorAccess[P][D].granted
                          /\ post.patientRecords[P].exists
                          /\ post.patientRecords[P].name = input[1]
    /\ \A patientAddress \in MockPatients \cup {JohnDoe},
          doctorAddress \in MockDoctors \cup {DoctorA3} :
          LET mine == getPatientRecords(patientAddress)
              readable == getDoctorAccessibleRecords(doctorAddress)
          IN (\E i \in 1..Len(mine) : Contains(readable, mine[i]))
                => Contains(readable, mine[1])

\* C36: record ids are unique in every reachable state of the mock: no two
\* records share an id, also when the calls that created them ran
\* concurrently and resumed in the same tick of the clock; so
\* grantDoctorAccess(recordId, doctor) finds the one record with that id.
C36_RecordIdsUnique ==
    \A i \in 1..Len(medicalRecords), j \in 1..Len(medicalRecords) :
        i # j => medicalRecords[i].id # medicalRecords[j].id

\* C37: in the mock a doctor is granted at most once per record under the
\* identity that reading uses (addresses equal up to letter case): no
\* record's doctorAccess holds two entries that getDoctorAccessibleRecords
\* treats as the same doctor.
C37_OneGrantPerDoctorIdentity ==
    \A r \in 1..Len(medicalRecords) :
        LET doctors == medicalRecords[r].doctorAccess IN
        \A i \in 1..Len(doctors), j \in 1..Len(doctors) :
            i # j => toLowerCase(doctors[i]) # toLowerCase(doctors[j])

\* C35: when two grantDoctorAccess calls for the same record id and the
\* same doctor address run concurrently (the second starts before the timer
\* of the first is due) and the first has logged its transaction, the
\* second returns a failure and logs none, and the doctor address stands
\* exactly once in the doctorAccess of the record that was granted.
C35_ConcurrentGrantsGrantOnce ==
    \A b \in 1..Len(calls), c \in 1..Len(calls) :
        (/\ b < c
         /\ calls[b].op = "grantDoctorAccess"
         /\ calls[c].op = "grantDoctorAccess"
         /\ calls[b].args = calls[c].args
         /\ calls[c].due - TxDelay < calls[b].due
         /\ calls[b].hash # 0)
        => /\ calls[c].hash = 0
           /\ calls[c].pc = "returned"
           /\ ~calls[c].result.success
           /\ \E r \in 1..Len(medicalRecords) :
                 /\ medicalRecords[r].id = calls[b].args[1]
                 /\ Count(medicalRecords[r].doctorAccess, calls[b].args[2]) = 1
           /\ \A r \in 1..Len(medicalRecords) :
                 Count(medicalRecords[r].doctorAccess, calls[b].args[2]) <= 1

\* the doctor addresses the mock is asked for
DoctorQueries == MockDoctors \cup {DoctorA3}

\* the records doctorAddress is shown, each named by its id and the hash of
\* the transaction that stored it
VisibleTo(doctorAddress) ==
    LET records == getDoctorAccessibleRecords(doctorAddress) IN
    {<<records[i].id, records[i].transactionHash>> : i \in 1..Len(records)}

\* record holds an entry for doctorAddress (an address up to letter case)
\* that is the granted doctor of the initial record or was pushed by a
\* grantDoctorAccess call for the id of the record
GrantedTo(record, doctorAddress) ==
    \E i \in 1..Len(record.doctorAccess) :
        /\ toLowerCase(record.doctorAccess[i]) = toLowerCase(doctorAddress)
        /\ \/ /\ record.id = InitialRecord.id
              /\ record.transactionHash = InitialRecord.transactionHash
              /\ record.doctorAccess[i] = DoctorA3
           \/ \E c \in 1..Len(calls) :
                 /\ calls[c].op = "grantDoctorAccess"
                 /\ calls[c].hash # 0
                 /\ calls[c].args = <<record.id, record.doctorAccess[i]>>

====
